---- MODULE Spec2Model ----
(***************************************************************************)
(* Model of syncedlyrics-helper.py: the Downloader (failure ledger, gating *)
(* checks, search and record) and the Crawler (recursive traversal and the *)
(* success counter), over successive invocations of the script that share  *)
(* the ledger file unsuccessful_fetches.txt.                                *)
(*                                                                         *)
(* A Python str is a sequence of one-character strings, so that            *)
(* formatting, lower-casing, substring search, writing and reading back    *)
(* are computed character by character.  An attribute of the tags that may *)
(* be None is a record [some, v].                                          *)
(***************************************************************************)
EXTENDS Integers, Sequences, FiniteSets

\* Number of successive invocations of the script that are explored.
MaxRuns == 2

NL == "\n"
CR == "\r"
SP == " "

None == [some |-> FALSE, v |-> <<>>]
Some(s) == [some |-> TRUE, v |-> s]

Range(s) == {s[i] : i \in 1..Len(s)}

---------------------------------------------------------------------------
\* Python string primitives

\* str.lower() on one character of the alphabet in use
LowerChar(c) ==
  CASE c = "A" -> "a"
    [] c = "B" -> "b"
    [] c = "N" -> "n"
    [] OTHER -> c

RECURSIVE lower(_)
lower(s) ==
  IF s = <<>> THEN <<>> ELSE <<LowerChar(Head(s))>> \o lower(Tail(s))

startswith(s, prefix) ==
  Len(prefix) <= Len(s) /\ SubSeq(s, 1, Len(prefix)) = prefix

\* `needle in hay` on two strs: scan of hay from the left
RECURSIVE str_in(_, _)
str_in(needle, hay) ==
  IF startswith(hay, needle) THEN TRUE
  ELSE IF hay = <<>> THEN FALSE
  ELSE str_in(needle, Tail(hay))

\* f"{x}": a str is inserted as it is, None as the text None
fstring(x) == IF x.some THEN x.v ELSE <<"N", "o", "n", "e">>

\* str.split(sep) with a one-character separator
RECURSIVE split(_, _)
split(s, sep) ==
  IF \E i \in 1..Len(s) : s[i] = sep
  THEN LET i == CHOOSE k \in 1..Len(s) :
                  s[k] = sep /\ \A j \in 1..(k - 1) : s[j] # sep
       IN <<SubSeq(s, 1, i - 1)>> \o split(SubSeq(s, i + 1, Len(s)), sep)
  ELSE <<s>>

\* Text-mode read (newline=None): "\r\n" and a lone "\r" are read as "\n"
RECURSIVE universal_newlines(_)
universal_newlines(s) ==
  IF s = <<>> THEN <<>>
  ELSE IF Head(s) = CR
  THEN <<NL>> \o universal_newlines(
         IF Len(s) >= 2 /\ s[2] = NL THEN Tail(Tail(s)) ELSE Tail(s))
  ELSE <<Head(s)>> \o universal_newlines(Tail(s))

---------------------------------------------------------------------------
\* The file system: paths are records [dir, stem, ext]

RootDir == [dir |-> "", stem |-> "r", ext |-> ""]
SubDir == [dir |-> "r", stem |-> "d", ext |-> ""]
Song1 == [dir |-> "r", stem |-> "s1", ext |-> "mp3"]
Notes == [dir |-> "r", stem |-> "notes", ext |-> "txt"]
Song2 == [dir |-> "d", stem |-> "s2", ext |-> "mp3"]

Dirs == {RootDir, SubDir}
AudioFiles == {Song1, Song2}

\* Path.with_suffix
with_suffix(path, suffix) == [path EXCEPT !.ext = suffix]

\* The tags TinyTag may return for an audio file
TagChoices ==
  { [title |-> Some(<<"a">>), artist |-> Some(<<"b">>), genre |-> Some(<<"b", "A", "b">>)],
    [title |-> Some(<<"a">>), artist |-> None, genre |-> None],
    [title |-> Some(<<"a", NL, "b">>), artist |-> Some(<<"b">>), genre |-> Some(<<"b", "A">>)],
    [title |-> Some(<<"a">>), artist |-> Some(<<"b", CR>>), genre |-> Some(<<"b">>)],
    [title |-> None, artist |-> Some(<<"b">>), genre |-> None] }

\* The values of --blacklisted_genres
BlacklistChoices == { <<>>, <<<<"a", "B">>>>, <<<<"N">>, <<"B", "a">>>> }

\* The ledger file before the first invocation: absent, not readable,
\* emptied, what an earlier invocation has appended to it, or the same cut
\* short before its newline
LedgerChoices ==
  { [state |-> "missing", content |-> <<>>],
    [state |-> "unreadable", content |-> <<>>],
    [state |-> "ok", content |-> <<>>],
    [state |-> "ok", content |-> <<"a", SP, "b", NL>>],
    [state |-> "ok", content |-> <<"a", SP, "b">>] }

VARIABLES
  root,                  \* args.path
  blacklisted_genres,    \* args.blacklisted_genres
  meta,                  \* the tags of each audio file
  files,                 \* the regular files that exist
  ledgerFile,            \* unsuccessful_fetches.txt
  pc,                    \* "start", "crawl", "done" or "crashed"
  run_no,                \* number of the current invocation
  unsuccessful_fetches,  \* Downloader.unsuccessful_fetches
  success_count,         \* Crawler.success_count
  stack,                 \* pending entries of each active recursive_download
  log,                   \* history: the calls of Downloader.run made so far
  peer                   \* a second process of the script, while the first
                         \* one is executing: its pc, unsuccessful_fetches,
                         \* success_count, stack and log

vars == <<root, blacklisted_genres, meta, files, ledgerFile, pc, run_no,
          unsuccessful_fetches, success_count, stack, log, peer>>

\* No second process exists
NoPeer ==
  [pc |-> "absent", unsuccessful_fetches |-> {}, success_count |-> 0,
   stack |-> <<>>, log |-> {}]

---------------------------------------------------------------------------
\* Downloader

\* open(f, "r") raises an exception other than FileNotFoundError
load_raises(file) == file.state = "unreadable"

\* Variant: the lines keep their newline, as file.readlines() returns them
load_unsuccessful_fetches_readlines(file) ==
  IF file.state = "missing" THEN {}
  ELSE {piece \o <<NL>> : piece \in Range(split(universal_newlines(file.content), NL))}

\* Variant: only the first line is read, as file.readline() does
load_unsuccessful_fetches_first_line(file) ==
  IF file.state = "missing" THEN {}
  ELSE {split(universal_newlines(file.content), NL)[1]}

load_unsuccessful_fetches(file) ==
  IF file.state = "missing" THEN {}
  ELSE Range(split(universal_newlines(file.content), NL))

\* Variant: the file is opened with mode "w" and loses its earlier lines
write_unsuccessful_fetches_truncating(file, track) ==
  [state |-> "ok", content |-> track \o <<NL>>]

\* Variant: the file is opened with mode "r+" and written from its start
write_unsuccessful_fetches_from_start(file, track) ==
  [state |-> "ok",
   content |-> track \o <<NL>> \o
               SubSeq(file.content, Len(track) + 2, Len(file.content))]

write_unsuccessful_fetches_to_disk(file, track) ==
  [state |-> "ok", content |-> file.content \o track \o <<NL>>]

\* Variant: the line is looked up with its newline
check_for_existing_raw_line(keywords, fetches) == (keywords \o <<NL>>) \in fetches

check_for_existing(keywords, fetches) == keywords \in fetches

\* Variant: the genre is formatted before it is lower-cased, so that a
\* missing genre reads none
RECURSIVE check_for_blacklisted_genre_fstring(_, _)
check_for_blacklisted_genre_fstring(tags, genres) ==
  IF genres = <<>> THEN FALSE
  ELSE IF str_in(lower(Head(genres)), lower(fstring(tags.genre)))
  THEN TRUE
  ELSE check_for_blacklisted_genre_fstring(tags, Tail(genres))

RECURSIVE check_for_blacklisted_genre(_, _)
check_for_blacklisted_genre(tags, genres) ==
  IF genres = <<>> THEN FALSE
  ELSE IF tags.genre.some /\ str_in(lower(Head(genres)), lower(tags.genre.v))
  THEN TRUE
  ELSE check_for_blacklisted_genre(tags, Tail(genres))

\* keywords = f"{title} {tags.artist}"
keywords_of(tags) == fstring(tags.title) \o <<SP>> \o fstring(tags.artist)

\* Variant: the existence of the audio file's sibling .txt is tested
exists_other_suffix(fs, path) == with_suffix(path, "txt") \in fs

\* lyrics.exists()
exists(fs, path) == path \in fs

\* TinyTag.get raises TinyTagException
not_a_song(filename) == filename \notin DOMAIN meta

\* A return of run before the search: nothing is searched or written
skipped(reason, keywords) ==
  [outcome |-> reason, keywords |-> keywords, ret |-> FALSE,
   searched |-> FALSE, query |-> <<>>, ledger |-> ledgerFile, fs |-> files]

\* Variant: the write to the ledger is not inside the `if not lrc:` block
\* and follows every search
run_write_unindented(filename, found) ==
  IF not_a_song(filename)
  THEN skipped("not-audio", <<>>)
  ELSE
    LET tags == meta[filename]
        keywords == keywords_of(tags)
        lyrics == with_suffix(filename, "lrc")
    IN
    IF check_for_existing(keywords, unsuccessful_fetches)
    THEN skipped("known-failure", keywords)
    ELSE IF check_for_blacklisted_genre(tags, blacklisted_genres)
    THEN skipped("blacklisted-genre", keywords)
    ELSE IF exists(files, lyrics)
    THEN skipped("already-has-lyrics", keywords)
    ELSE [outcome |-> IF found THEN "Fetched" ELSE "NotFound",
          keywords |-> keywords, ret |-> found,
          searched |-> TRUE, query |-> keywords,
          ledger |-> write_unsuccessful_fetches_to_disk(ledgerFile, keywords_of(tags)),
          fs |-> IF found THEN files \cup {lyrics} ELSE files]

\* Downloader.run(filename); found is the answer of syncedlyrics.search if
\* it is called (on success the search saves the lyrics at save_path).
\* ret is the returned bool, outcome names the return statement taken.
run(filename, found) ==
  IF not_a_song(filename)
  THEN skipped("not-audio", <<>>)
  ELSE
    LET tags == meta[filename]
        keywords == keywords_of(tags)
        lyrics == with_suffix(filename, "lrc")
    IN
    IF check_for_existing(keywords, unsuccessful_fetches)
    THEN skipped("known-failure", keywords)
    ELSE IF check_for_blacklisted_genre(tags, blacklisted_genres)
    THEN skipped("blacklisted-genre", keywords)
    ELSE IF exists(files, lyrics)
    THEN skipped("already-has-lyrics", keywords)
    ELSE IF ~ found
    THEN [outcome |-> "NotFound", keywords |-> keywords, ret |-> FALSE,
          searched |-> TRUE, query |-> keywords,
          ledger |-> write_unsuccessful_fetches_to_disk(ledgerFile, keywords_of(tags)),
          fs |-> files]
    ELSE [outcome |-> "Fetched", keywords |-> keywords, ret |-> TRUE,
          searched |-> TRUE, query |-> keywords,
          ledger |-> ledgerFile,
          fs |-> files \cup {lyrics}]

---------------------------------------------------------------------------
\* Crawler

is_dir(path) == path \in Dirs

\* Variant: only the regular files of the directory are listed
iterdir_files_only(path) == {f \in files : f.dir = path.stem}

\* path.iterdir(): the entries of the directory when it is listed
iterdir(path) ==
  {d \in Dirs : d.dir = path.stem} \cup {f \in files : f.dir = path.stem}

\* A recursive_download whose for loop is exhausted returns to its caller
RECURSIVE returned(_)
returned(st) ==
  IF st # <<>> /\ st[Len(st)] = {}
  THEN returned(SubSeq(st, 1, Len(st) - 1))
  ELSE st

\* Variant: the loop is left once an entry has been handled
taken_and_left(item) == [stack EXCEPT ![Len(stack)] = {}]

\* The pending entries once item is taken from the innermost loop
taken(item) == [stack EXCEPT ![Len(stack)] = @ \ {item}]

\* Variant: every call of download_lyrics is counted
counted_every_call(count, ret) == count + 1

\* self.success_count after download_lyrics, given what run returned
counted(count, ret) == IF ret THEN count + 1 ELSE count

\* The first song carries any of the tags, the second one a title and no
\* carriage return; the tree holds a text file or the lyrics of the first
\* song
Init ==
  /\ root \in {RootDir, Song1}
  /\ blacklisted_genres \in BlacklistChoices
  /\ meta \in [AudioFiles -> TagChoices]
  /\ meta[Song2].title.some /\ CR \notin Range(keywords_of(meta[Song2]))
  /\ files \in {{Song1, Notes, Song2},
                {Song1, Song2, with_suffix(Song1, "lrc")}}
  /\ ledgerFile \in LedgerChoices
  /\ pc = "start"
  /\ run_no = 1
  /\ unsuccessful_fetches = {}
  /\ success_count = 0
  /\ stack = <<>>
  /\ log = {}
  /\ peer = NoPeer

\* cr = Crawler(args.path, args.blacklisted_genres), up to the first call
\* of recursive_download
Construct ==
  /\ pc = "start"
  /\ IF load_raises(ledgerFile)
     THEN /\ pc' = "crashed"
          /\ UNCHANGED <<unsuccessful_fetches, stack>>
     ELSE /\ pc' = "crawl"
          /\ unsuccessful_fetches' = load_unsuccessful_fetches(ledgerFile)
          /\ stack' = <<{root}>>
  /\ success_count' = 0
  /\ UNCHANGED <<root, blacklisted_genres, meta, files, ledgerFile, run_no, log, peer>>

\* recursive_download(path) on a directory: its entries are listed and
\* become the pending entries of a new loop
recursive_download ==
  /\ pc = "crawl"
  /\ stack # <<>>
  /\ \E item \in stack[Len(stack)] :
       /\ is_dir(item)
       /\ stack' = returned(Append(taken(item), iterdir(item)))
  /\ UNCHANGED <<root, blacklisted_genres, meta, files, ledgerFile, pc, run_no,
                 unsuccessful_fetches, success_count, log, peer>>

\* The keywords for which run has reported no lyrics in invocation n
not_found_in(n) ==
  {e.keywords : e \in {x \in log : x.run_no = n /\ x.outcome = "NotFound"}}

\* download_lyrics(path) on an entry that is no directory
download_lyrics ==
  /\ pc = "crawl"
  /\ stack # <<>>
  /\ \E item \in stack[Len(stack)], found \in BOOLEAN :
       /\ ~ is_dir(item)
       /\ LET r == run(item, found) IN
            /\ success_count' = counted(success_count, r.ret)
            /\ ledgerFile' = r.ledger
            /\ files' = r.fs
            /\ log' = log \cup
                 {[run_no |-> run_no, path |-> item, outcome |-> r.outcome,
                   keywords |-> r.keywords, searched |-> r.searched,
                   query |-> r.query,
                   had_lyrics |-> with_suffix(item, "lrc") \in files,
                   failed_before |-> not_found_in(run_no),
                   before |-> ledgerFile, after |-> r.ledger]}
       /\ stack' = returned(taken(item))
  /\ UNCHANGED <<root, blacklisted_genres, meta, pc, run_no, unsuccessful_fetches,
                 peer>>

\* The constructor of Crawler returns and the count is printed
Finish ==
  /\ pc = "crawl"
  /\ stack = <<>>
  /\ pc' = "done"
  /\ UNCHANGED <<root, blacklisted_genres, meta, files, ledgerFile, run_no,
                 unsuccessful_fetches, success_count, stack, log, peer>>

\* The script is invoked again with the same arguments: a new process,
\* whose memory holds nothing of the previous one
NewRun ==
  /\ pc = "done"
  /\ run_no < MaxRuns
  /\ pc' = "start"
  /\ run_no' = run_no + 1
  /\ unsuccessful_fetches' = {}
  /\ success_count' = 0
  /\ stack' = <<>>
  /\ UNCHANGED <<root, blacklisted_genres, meta, files, ledgerFile, log, peer>>

Next ==
  \/ Construct
  \/ recursive_download
  \/ download_lyrics
  \/ Finish
  \/ NewRun

Spec == Init /\ [][Next]_vars

---------------------------------------------------------------------------
\* Vocabulary of the properties

IsSkip(outcome) ==
  outcome \in {"not-audio", "known-failure", "blacklisted-genre",
               "already-has-lyrics"}

\* The calls of run on files that TinyTag accepted
Evaluated == {e \in log : e.outcome # "not-audio"}

has_line_break(s) == \E i \in 1..Len(s) : s[i] \in {NL, CR}

\* The file is absent, empty or ends with a newline
terminated(file) ==
  file.content = <<>> \/ file.content[Len(file.content)] = NL

\* The lines of the ledger file, as a text-mode read delivers them
ledger_lines(file) ==
  LET pieces == split(universal_newlines(file.content), NL)
  IN IF pieces[Len(pieces)] = <<>>
     THEN SubSeq(pieces, 1, Len(pieces) - 1)
     ELSE pieces

\* Some entry of the blacklist, lower-cased, occurs at some offset of the
\* lower-cased genre
genre_matches(tags, genres) ==
  /\ tags.genre.some
  /\ \E k \in 1..Len(genres) :
       \E off \in 0..(Len(tags.genre.v) - Len(genres[k])) :
         \A j \in 1..Len(genres[k]) :
           LowerChar(tags.genre.v[off + j]) = LowerChar(genres[k][j])

---------------------------------------------------------------------------
\* C1: within one invocation, once run has reported no lyrics for some
\* keywords, every later run on a track with the same keywords returns at
\* the known-failure check and does not call the search.
C1_KnownFailureWithinRun ==
  \A e \in Evaluated :
    e.keywords \in e.failed_before =>
      e.outcome = "known-failure" /\ ~ e.searched

\* C2: no call of run in a second or later invocation over the unchanged
\* tree returns True (zero Fetched).
C2_SecondCrawlFetchesNothing ==
  \A e \in log : e.run_no >= 2 => e.outcome # "Fetched"

\* C2 (amended): in a second or later invocation, a track is fetched only
\* if its keywords contain a line break, provided the ledger file was
\* absent, empty or newline-terminated before every call.
C2_SecondCrawlFetchesNoCleanKey ==
  (\A e \in log : terminated(e.before)) =>
    \A e \in log :
      e.run_no >= 2 /\ e.outcome = "Fetched" => has_line_break(e.keywords)

C2_Witness ==
  /\ pc = "done"
  /\ run_no = 2
  /\ \A e \in log : terminated(e.before)
  /\ \E e1, e2, f1, f2 \in log :
       /\ e1.run_no = 1 /\ e1.outcome = "Fetched"
       /\ e2.run_no = 2 /\ e2.path = e1.path /\ e2.outcome = "already-has-lyrics"
       /\ f1.run_no = 1 /\ f1.outcome = "NotFound"
       /\ f2.run_no = 2 /\ f2.path = f1.path /\ f2.outcome = "known-failure"

\* C3: a track for which run reported no lyrics in one invocation is
\* skipped, without a search, in every later invocation.
C3_FailurePersistsAcrossRuns ==
  \A e1, e2 \in log :
    e1.outcome = "NotFound" /\ e2.path = e1.path /\ e2.run_no > e1.run_no =>
      IsSkip(e2.outcome) /\ ~ e2.searched

\* C3 (amended): the same, for keywords without a line break appended to
\* a ledger file that was absent, empty or newline-terminated.
C3_CleanFailurePersistsAcrossRuns ==
  \A e1, e2 \in log :
    /\ e1.outcome = "NotFound" /\ e2.path = e1.path /\ e2.run_no > e1.run_no
    /\ ~ has_line_break(e1.keywords) /\ terminated(e1.before)
    => IsSkip(e2.outcome) /\ ~ e2.searched

C3_Witness ==
  \E e1, e2 \in log :
    /\ e1.outcome = "NotFound" /\ e2.path = e1.path /\ e2.run_no > e1.run_no
    /\ ~ has_line_break(e1.keywords) /\ terminated(e1.before)
    /\ e2.outcome = "known-failure"
    /\ ~ check_for_blacklisted_genre(meta[e2.path], blacklisted_genres)

\* C4: while a process runs, its in-memory failure set contains every
\* keywords it has appended to the ledger file.
C4_MemoryCoversOwnAppends ==
  pc \in {"crawl", "done"} => not_found_in(run_no) \subseteq unsuccessful_fetches

\* C5: every run that reports no lyrics adds exactly one line to the
\* ledger file, equal to the keywords that were looked up and searched.
C5_NotFoundAppendsItsKey ==
  \A e \in log :
    e.outcome = "NotFound" =>
      /\ ledger_lines(e.after) = Append(ledger_lines(e.before), e.keywords)
      /\ e.query = e.keywords

\* C5 (amended): the same, for keywords without a line break appended to
\* a ledger file that was absent, empty or newline-terminated.
C5_NotFoundAppendsItsCleanKey ==
  \A e \in log :
    e.outcome = "NotFound" /\ ~ has_line_break(e.keywords) /\ terminated(e.before) =>
      /\ ledger_lines(e.after) = Append(ledger_lines(e.before), e.keywords)
      /\ e.query = e.keywords

C5_Witness ==
  \E e \in log :
    /\ e.outcome = "NotFound" /\ ~ has_line_break(e.keywords)
    /\ terminated(e.before) /\ e.before.content # <<>>
    /\ Len(ledger_lines(e.after)) = 2

\* C6: a track whose .lrc file exists when run is called is skipped,
\* without a search and without a write to the ledger file.
C6_ExistingLyricsShortCircuit ==
  \A e \in Evaluated :
    e.had_lyrics => IsSkip(e.outcome) /\ ~ e.searched /\ e.after = e.before

C6_Witness ==
  \E e \in log : e.had_lyrics /\ e.outcome = "already-has-lyrics"

\* C7: the blacklist check is true of a track exactly when the track has
\* a genre of which some lower-cased blacklist entry is a contiguous
\* substring after lower-casing, and then run skips without a search.
C7_BlacklistGate ==
  /\ \A p \in DOMAIN meta :
       check_for_blacklisted_genre(meta[p], blacklisted_genres)
         <=> genre_matches(meta[p], blacklisted_genres)
  /\ \A e \in Evaluated :
       genre_matches(meta[e.path], blacklisted_genres) =>
         IsSkip(e.outcome) /\ ~ e.searched

C7_Witness ==
  \E e \in log :
    /\ e.outcome = "blacklisted-genre"
    /\ meta[e.path].genre.v # lower(meta[e.path].genre.v)
    /\ \A k \in 1..Len(blacklisted_genres) :
         lower(blacklisted_genres[k]) # lower(meta[e.path].genre.v)

\* C8: when the ledger file cannot be read at construction, missing or
\* not, the construction completes with an empty in-memory ledger.
C8_LedgerReadFailureIsNotFatal ==
  pc # "start" /\ ledgerFile.state \in {"missing", "unreadable"} =>
    pc # "crashed" /\ unsuccessful_fetches = {}

\* C9: for a track with a title and no artist, the keywords looked up,
\* searched and appended are the title followed by one space.
C9_KeyOfTrackWithoutArtist ==
  \A e \in Evaluated :
    meta[e.path].title.some /\ ~ meta[e.path].artist.some =>
      e.keywords = meta[e.path].title.v \o <<SP>>

\* C10: the success counter is the number of calls of run in this
\* invocation that returned Fetched.
C10_CountIsNumberFetched ==
  success_count =
    Cardinality({e \in log : e.run_no = run_no /\ e.outcome = "Fetched"})

C10_Witness ==
  /\ success_count = 1
  /\ \E e \in log : e.run_no = run_no /\ e.outcome = "NotFound"
  /\ \E e \in log : e.run_no = run_no /\ IsSkip(e.outcome)

\* path is root or lies below it
RECURSIVE under(_, _)
under(path, r) ==
  path = r \/ \E d \in Dirs : d.stem = path.dir /\ under(d, r)

\* The files below the root when the current invocation started: those
\* that exist, less the lyrics this invocation has saved
tree_at_start ==
  {f \in files : under(f, root)} \
    {with_suffix(e.path, "lrc") :
       e \in {x \in log : x.run_no = run_no /\ x.outcome = "Fetched"}}

evaluated_in_run == {e.path : e \in {x \in log : x.run_no = run_no}}

\* f, or a directory above it, waits in the loop of some recursive_download
pending(f) ==
  \E i \in 1..Len(stack) : \E x \in stack[i] : under(f, x)

\* C11: no outcome of run aborts the crawl: after every call of run,
\* not-audio and NotFound included, each file of the tree has been
\* evaluated or is still pending, and when the crawl ends all have been.
C11_PerFileErrorsAreLocal ==
  /\ pc = "crashed" => evaluated_in_run = {}
  /\ pc = "crawl" => \A f \in tree_at_start : f \in evaluated_in_run \/ pending(f)
  /\ pc = "done" => \A f \in tree_at_start : f \in evaluated_in_run

C11_Witness ==
  /\ pc = "done"
  /\ \E e \in log : e.run_no = run_no /\ e.outcome = "not-audio"
  /\ \E e \in log :
       /\ e.run_no = run_no /\ e.outcome = "Fetched"
       /\ e.failed_before # {}

\* C12: every step leaves the earlier content of the ledger file as a
\* prefix of the later content, and the number of its lines does not
\* decrease.
C12_LedgerIsAppendOnly ==
  [][/\ startswith(ledgerFile'.content, ledgerFile.content)
     /\ Len(ledger_lines(ledgerFile')) >= Len(ledger_lines(ledgerFile))]_vars

C12_Witness ==
  \E e \in log :
    /\ e.before.content # <<>>
    /\ e.after # e.before
    /\ ledgerFile.content # e.after.content

\* C14: a call of run that returns a skip or Fetched changes neither the
\* ledger file nor the in-memory failure set, and a skip makes no search.
C14_LedgerChangesOnlyOnNotFound ==
  [][\A e \in log' \ log :
       /\ IsSkip(e.outcome) => ~ e.searched
       /\ IsSkip(e.outcome) \/ e.outcome = "Fetched" =>
            /\ e.after = e.before
            /\ ledgerFile' = ledgerFile
            /\ unsuccessful_fetches' = unsuccessful_fetches]_vars

C14_Witness ==
  /\ \E e \in log : e.outcome = "Fetched" /\ e.before.content # <<>>
  /\ \E e \in log : e.outcome = "known-failure"
  /\ \E e \in log : e.outcome = "NotFound" /\ e.after # e.before

---------------------------------------------------------------------------
\* Crawls over varied trees, by a process that keeps running

AllFiles == {Song1, Notes, Song2, with_suffix(Song1, "lrc")}

\* The root is a directory, possibly empty, or a file that exists
TreeInit ==
  /\ root \in {RootDir, SubDir, Song1}
  /\ blacklisted_genres = <<>>
  /\ meta \in [AudioFiles -> {t \in TagChoices :
                                t.title.some /\ ~ has_line_break(keywords_of(t))}]
  /\ files \in {fs \in SUBSET AllFiles : root \in Dirs \/ root \in fs}
  /\ ledgerFile \in {l \in LedgerChoices : l.state = "missing"}
  /\ pc = "start"
  /\ run_no = 1
  /\ unsuccessful_fetches = {}
  /\ success_count = 0
  /\ stack = <<>>
  /\ log = {}
  /\ peer = NoPeer

\* The interpreter executes the next statement of the script as long as
\* there is one
CrawlSpec == TreeInit /\ [][Next]_vars /\ WF_vars(Next)

\* C13: a crawl that has started ends; when it ends, run has been called
\* on every file below the root (on the root itself when it is a file)
\* and on nothing else; and no file is passed to run twice in one crawl.
C13_TraversalComplete ==
  /\ [](pc = "done" =>
          /\ evaluated_in_run = tree_at_start
          /\ root \notin Dirs => evaluated_in_run = {root})
  /\ [][download_lyrics =>
          /\ log' # log
          /\ \A e \in log' \ log : e.path \notin evaluated_in_run]_vars
  /\ (pc = "crawl" ~> pc = "done")

C13_Witness ==
  /\ pc = "done"
  /\ root = RootDir
  /\ Song2 \in evaluated_in_run
  /\ Cardinality(evaluated_in_run) = 4

C13_WitnessFileRoot ==
  pc = "done" /\ root = Song1 /\ evaluated_in_run = {Song1}

---------------------------------------------------------------------------
\* Invocations that are terminated before the crawl ends

\* The process is terminated between two calls of run
Terminate ==
  /\ pc = "crawl"
  /\ pc' = "killed"
  /\ UNCHANGED <<root, blacklisted_genres, meta, files, ledgerFile, run_no,
                 unsuccessful_fetches, success_count, stack, log, peer>>

\* The script is invoked again after it was terminated
Restart ==
  /\ pc = "killed"
  /\ run_no < MaxRuns
  /\ pc' = "start"
  /\ run_no' = run_no + 1
  /\ unsuccessful_fetches' = {}
  /\ success_count' = 0
  /\ stack' = <<>>
  /\ UNCHANGED <<root, blacklisted_genres, meta, files, ledgerFile, log, peer>>

ResumeNext ==
  \/ Next
  \/ Terminate
  \/ Restart

\* A directory of two songs is crawled; no genre is blacklisted and no
\* lyrics exist yet
ResumeInit ==
  /\ root = RootDir
  /\ blacklisted_genres = <<>>
  /\ meta \in [AudioFiles -> TagChoices]
  /\ meta[Song2].title.some /\ ~ has_line_break(keywords_of(meta[Song2]))
  /\ files = {Song1, Song2}
  /\ ledgerFile \in {l \in LedgerChoices : l.state # "unreadable"}
  /\ pc = "start"
  /\ run_no = 1
  /\ unsuccessful_fetches = {}
  /\ success_count = 0
  /\ stack = <<>>
  /\ log = {}
  /\ peer = NoPeer

ResumeSpec == ResumeInit /\ [][ResumeNext]_vars

\* Invocation n ended before it had evaluated every file that was below
\* the root from the beginning
interrupted(n) ==
  /\ n < run_no
  /\ \E f \in {Song1, Song2} :
       /\ under(f, root)
       /\ \A e \in log : ~ (e.run_no = n /\ e.path = f)

\* C15: a file for which an interrupted invocation returned Fetched or
\* NotFound is not searched in the next invocation.
C15_DecidedFilesAreNotSearchedAgain ==
  \A e1, e2 \in log :
    /\ interrupted(e1.run_no)
    /\ e1.outcome \in {"Fetched", "NotFound"}
    /\ e2.run_no = e1.run_no + 1 /\ e2.path = e1.path
    => ~ e2.searched

\* C15 (amended): the same, where a NotFound counts only for keywords
\* without a line break appended to a ledger file that was absent, empty
\* or newline-terminated.
C15_CleanlyDecidedFilesAreNotSearchedAgain ==
  \A e1, e2 \in log :
    /\ interrupted(e1.run_no)
    /\ \/ e1.outcome = "Fetched"
       \/ /\ e1.outcome = "NotFound"
          /\ ~ has_line_break(e1.keywords) /\ terminated(e1.before)
    /\ e2.run_no = e1.run_no + 1 /\ e2.path = e1.path
    => ~ e2.searched

C15_Witness ==
  \E e1, e2, e3 \in log :
    /\ interrupted(e1.run_no)
    /\ e1.outcome = "NotFound"
    /\ ~ has_line_break(e1.keywords) /\ terminated(e1.before)
    /\ e2.run_no = e1.run_no + 1 /\ e2.path = e1.path
    /\ e2.outcome = "known-failure"
    /\ e3.run_no = e2.run_no /\ e3.searched
    /\ \A e \in log : ~ (e.run_no = e1.run_no /\ e.path = e3.path)

---------------------------------------------------------------------------
\* Two processes of the script that run at the same time on one tree and
\* one ledger file

\* The operating system suspends the executing process between two of its
\* steps and lets the other process execute
Switch ==
  /\ peer.pc \in {"start", "crawl"}
  /\ pc' = peer.pc
  /\ unsuccessful_fetches' = peer.unsuccessful_fetches
  /\ success_count' = peer.success_count
  /\ stack' = peer.stack
  /\ log' = peer.log
  /\ peer' = [pc |-> pc, unsuccessful_fetches |-> unsuccessful_fetches,
              success_count |-> success_count, stack |-> stack, log |-> log]
  /\ UNCHANGED <<root, blacklisted_genres, meta, files, ledgerFile, run_no>>

\* Both processes are about to construct their Crawler on a directory of
\* two songs
ConcInit ==
  /\ root = RootDir
  /\ blacklisted_genres = <<>>
  /\ meta \in [AudioFiles -> {t \in TagChoices :
                                t.title.some /\ ~ has_line_break(keywords_of(t))}]
  /\ files = {Song1, Song2}
  /\ ledgerFile \in {l \in LedgerChoices : l.state # "unreadable" /\ terminated(l)}
  /\ pc = "start"
  /\ run_no = 1
  /\ unsuccessful_fetches = {}
  /\ success_count = 0
  /\ stack = <<>>
  /\ log = {}
  /\ peer = [NoPeer EXCEPT !.pc = "start"]

ConcNext ==
  \/ Construct
  \/ recursive_download
  \/ download_lyrics
  \/ Finish
  \/ Switch

ConcSpec == ConcInit /\ [][ConcNext]_vars

\* The calls of run made by either process
both_logs == log \cup peer.log

\* The number of lines of the ledger file that are equal to key
RECURSIVE occurrences(_, _)
occurrences(lines, key) ==
  IF lines = <<>> THEN 0
  ELSE (IF Head(lines) = key THEN 1 ELSE 0) + occurrences(Tail(lines), key)

\* C16: with two processes on one ledger file, what either process has
\* appended stays in the file, and the in-memory failure set of a crawling
\* process does not change, whatever the other process appends.
C16_AppendsKeptButNotShared ==
  /\ [](\A e \in both_logs :
          e.outcome = "NotFound" =>
            /\ startswith(ledgerFile.content, e.after.content)
            /\ occurrences(ledger_lines(ledgerFile), e.keywords) >=
                 Cardinality({x \in both_logs :
                                x.outcome = "NotFound" /\ x.keywords = e.keywords}))
  /\ [][peer' = peer /\ pc = "crawl" =>
          unsuccessful_fetches' = unsuccessful_fetches]_vars

\* Both processes have searched for the same keywords and the ledger file
\* holds them on two lines
C16_Witness ==
  \E e1 \in log, e2 \in peer.log :
    /\ e1.outcome = "NotFound" /\ e2.outcome = "NotFound"
    /\ e1.searched /\ e2.searched
    /\ e1.query = e2.query
    /\ e1.keywords \notin load_unsuccessful_fetches(e1.before)
    /\ occurrences(ledger_lines(ledgerFile), e1.keywords) = 2
    /\ e1.keywords \notin unsuccessful_fetches \cup peer.unsuccessful_fetches

====
